---- MODULE Spec2Model ----
(***************************************************************************)
(* Model of sqlalchemy_utils/decorators.py: the `generates` decorator, the *)
(* process-wide generator registry and the two lifecycle hooks             *)
(* (mapper_configured -> update_generator_registry,                        *)
(*  before_flush      -> update_generated_properties).                     *)
(*                                                                         *)
(* Python strings are sequences of tokens; the token "." is the dot, every *)
(* other token is a dot-free run of characters.  <<"Article",".","slug">>  *)
(* is the string 'Article.slug'.                                           *)
(***************************************************************************)
EXTENDS Integers, Sequences, FiniteSets, TLC

\* ------------------------------------------------------------- bounds
\* decorator applications in one process
MaxWrappers == 2
\* mapper_configured events delivered in one process
MaxConfigured == 2
\* ------------------------------------------------------------- universe
\* Class objects.  c1 and c3 are two different classes that are both called
\* Article (declared in two modules); c2 is called User and derives from c1.
Classes == {"c1", "c2", "c3"}

class_name(c) == IF c = "c2" THEN <<"User">> ELSE <<"Article">>

\* where a decorated function is declared: at module level or in a class body
Module == "module"

Objs == {"o1", "o2"}

\* the classes an object can be an instance of
ObjClasses(o) == IF o = "o1" THEN {"c1"} ELSE {"c2"}

\* the attributes the application assigns; the others are generated
InputAttrs == {<<"name">>}

AttrNames == {<<"name">>, <<"slug">>, <<"hash">>}

\* attribute values: two of them are enough to tell a value from another
Val == {0, 1}

other(v) == 1 - v

NoClass == "none"

\* ------------------------------------------------------------- strings
HasDot(s) == \E i \in 1..Len(s) : s[i] = "."

RECURSIVE split(_)
split(s) ==
    IF ~HasDot(s) THEN <<s>>
    ELSE LET i == CHOOSE k \in 1..Len(s) :
                     s[k] = "." /\ \A j \in 1..(k - 1) : s[j] # "."
         IN  <<SubSeq(s, 1, i - 1)>> \o split(SubSeq(s, i + 1, Len(s)))

\* ------------------------------------------------------------- targets
\* The argument of generates(): a string, an InstrumentedAttribute (it has
\* class_ and name), a Column (it has name) or any other object (no name).
Str(s) == [kind |-> "str", class_ |-> NoClass, name |-> <<>>, s |-> s]

InstrumentedAttribute(c, n) ==
    [kind |-> "InstrumentedAttribute", class_ |-> c, name |-> n, s |-> <<>>]

Column(n) == [kind |-> "Column", class_ |-> NoClass, name |-> n, s |-> <<>>]

Malformed == [kind |-> "object", class_ |-> NoClass, name |-> <<>>, s |-> <<>>]

is_string(attr) == attr.kind = "str"

has_name(attr) == attr.kind \in {"InstrumentedAttribute", "Column"}

\* ------------------------------------------------------------- generators
\* The decorated functions.  Each reads attributes of the object it is given
\* and returns a value or raises.
Funcs == {"lower", "bump", "strict"}

Returns(v) == [raised |-> FALSE, value |-> v, error |-> "none"]

Raises(e) == [raised |-> TRUE, value |-> 0, error |-> e]

\* lower:  return f(self.name)
\* bump:   return f(self.slug)
\* strict: raise ValueError on a malformed self.name, else return self.name
func(f, self) ==
    CASE f = "lower"  -> Returns(other(self[<<"name">>]))
      [] f = "bump"   -> Returns(other(self[<<"slug">>]))
      [] f = "strict" -> IF self[<<"name">>] = 0 THEN Raises("ValueError")
                         ELSE Returns(self[<<"name">>])

\* the attributes a decorated function reads
Reads(f) == IF f = "bump" THEN {<<"slug">>} ELSE {<<"name">>}

\* ------------------------------------------------------------- registry
\* generator_registry = defaultdict(list): a function whose domain is the set
\* of keys present.
EmptyRegistry == [k \in {} |-> <<>>]

\* generator_registry[key] = [w]: an assignment where the code appends
registry_assign(reg, key, w) ==
    [k \in (DOMAIN reg) \cup {key} |-> IF k = key THEN <<w>> ELSE reg[k]]

\* generator_registry[key].append(w)
registry_append(reg, key, w) ==
    IF key \in DOMAIN reg
    THEN [reg EXCEPT ![key] = Append(@, w)]
    ELSE [k \in (DOMAIN reg) \cup {key} |-> IF k = key THEN <<w>> ELSE reg[k]]

\* ------------------------------------------------------------- decorator
\* register_listeners() without the test of the flag
register_listeners_unguarded(st) ==
    [listeners_registered |-> TRUE,
     mapper_configured    |-> st.mapper_configured + 1,
     before_flush         |-> st.before_flush + 1]

\* register_listeners(): st is [listeners_registered, mapper_configured,
\* before_flush], the flag and the number of listeners attached to each event.
register_listeners(st) ==
    IF ~st.listeners_registered
    THEN [listeners_registered |-> TRUE,
          mapper_configured    |-> st.mapper_configured + 1,
          before_flush         |-> st.before_flush + 1]
    ELSE st

\* wraps(func) that registers a plain name at once, under the name itself
wraps_eager(attr, reg, w) ==
    IF is_string(attr) /\ HasDot(attr.s)
    THEN [registry      |-> registry_append(reg, split(attr.s)[1], w),
          generates_tag |-> Str(split(attr.s)[2])]
    ELSE IF attr.kind = "InstrumentedAttribute"
    THEN [registry      |-> registry_append(reg, class_name(attr.class_), w),
          generates_tag |-> attr]
    ELSE [registry      |-> IF is_string(attr)
                            THEN registry_append(reg, attr.s, w) ELSE reg,
          generates_tag |-> attr]

\* wraps(func) that keeps the whole dotted string as the tag
wraps_untrimmed(attr, reg, w) ==
    IF is_string(attr) /\ HasDot(attr.s)
    THEN [registry      |-> registry_append(reg, split(attr.s)[1], w),
          generates_tag |-> attr]
    ELSE IF attr.kind = "InstrumentedAttribute"
    THEN [registry      |-> registry_append(reg, class_name(attr.class_), w),
          generates_tag |-> attr]
    ELSE [registry      |-> reg,
          generates_tag |-> attr]

\* wraps(func) that only tags the wrapper when it is given a dotted string
wraps_deferred(attr, reg, w) ==
    IF is_string(attr) /\ HasDot(attr.s)
    THEN [registry      |-> reg,
          generates_tag |-> Str(split(attr.s)[2])]
    ELSE IF attr.kind = "InstrumentedAttribute"
    THEN [registry      |-> registry_append(reg, class_name(attr.class_), w),
          generates_tag |-> attr]
    ELSE [registry      |-> reg,
          generates_tag |-> attr]

\* wraps(func) for the closure variable attr: w is the new wrapper.  Yields the
\* registry and the wrapper's __generates__.
wraps(attr, reg, w) ==
    IF is_string(attr) /\ HasDot(attr.s)
    THEN LET parts == split(attr.s)
         IN  [registry      |-> registry_append(reg, parts[1], w),
              \* parts[1] of Python: the second element
              generates_tag |-> Str(parts[2])]
    ELSE IF attr.kind = "InstrumentedAttribute"
    THEN [registry      |-> registry_append(reg, class_name(attr.class_), w),
          generates_tag |-> attr]
    ELSE [registry      |-> reg,
          generates_tag |-> attr]

\* ------------------------------------------------------------- hooks
\* a test for an attribute that no wrapper has
has_generates_misspelt(value) == FALSE

\* hasattr(value, '__generates__'): the values of a class __dict__ are wrapper
\* numbers (>= 1) or 0, a member that no decorator tagged (a column, a method).
has_generates(value) == value >= 1

\* a scan that skips a member the entry already holds
RECURSIVE update_generator_registry_once(_, _, _)
update_generator_registry_once(reg, values, name) ==
    IF values = <<>> THEN reg
    ELSE update_generator_registry_once(
             IF /\ has_generates(Head(values))
                /\ ~(name \in DOMAIN reg /\ \E i \in 1..Len(reg[name]) :
                                               reg[name][i] = Head(values))
             THEN registry_append(reg, name, Head(values))
             ELSE reg,
             Tail(values), name)

\* update_generator_registry(mapper, class_): values is class_.__dict__.values()
RECURSIVE update_generator_registry(_, _, _)
update_generator_registry(reg, values, name) ==
    IF values = <<>> THEN reg
    ELSE update_generator_registry(
             IF has_generates(Head(values))
             THEN registry_append(reg, name, Head(values))
             ELSE reg,
             Tail(values), name)

CallEvent(w, o) == [ev |-> "call", w |-> w, obj |-> o, attr |-> <<>>, value |-> 0]

SetEvent(w, o, a, v) == [ev |-> "set", w |-> w, obj |-> o, attr |-> a, value |-> v]

\* the hook as it starts: the objects, the module's registry and the wrappers
\* (with their __generates__), nothing called or assigned yet
HookState(attrs, reg, wrs) ==
    [attrs |-> attrs, log |-> <<>>, result |-> "ok", registry |-> reg, wrappers |-> wrs]

\* an iteration that stores the resolved name in the wrapper's __generates__
generate_writeback(w, o, st) ==
    LET tag == st.wrappers[w].generates_tag
    IN  IF ~is_string(tag) /\ ~has_name(tag)
        THEN [st EXCEPT !.result = "AttributeError"]
        ELSE LET attr == IF is_string(tag) THEN tag.s ELSE tag.name
                 r    == func(st.wrappers[w].func, st.attrs[o])
                 st1  == [st EXCEPT !.wrappers[w].generates_tag = Str(attr)]
             IN  IF r.raised
                 THEN [st1 EXCEPT !.result = r.error,
                                  !.log = Append(@, CallEvent(w, o))]
                 ELSE [st1 EXCEPT !.attrs[o][attr] = r.value,
                                  !.log = @ \o <<CallEvent(w, o),
                                                 SetEvent(w, o, attr, r.value)>>]

\* an iteration that passes over a tag it cannot resolve
generate_lenient(w, o, st) ==
    LET tag == st.wrappers[w].generates_tag
    IN  IF ~is_string(tag) /\ ~has_name(tag)
        THEN st
        ELSE LET attr == IF is_string(tag) THEN tag.s ELSE tag.name
                 r    == func(st.wrappers[w].func, st.attrs[o])
             IN  IF r.raised
                 THEN [st EXCEPT !.result = r.error,
                                 !.log = Append(@, CallEvent(w, o))]
                 ELSE [st EXCEPT !.attrs[o][attr] = r.value,
                                 !.log = @ \o <<CallEvent(w, o),
                                                SetEvent(w, o, attr, r.value)>>]

\* one iteration of the inner loop of update_generated_properties: resolve the
\* attribute name into the local attr, call the wrapper, assign.  st is the
\* state of the hook (HookState).
generate(w, o, st) ==
    LET tag == st.wrappers[w].generates_tag
    IN  IF ~is_string(tag) /\ ~has_name(tag)
        THEN [st EXCEPT !.result = "AttributeError"]
        ELSE LET attr == IF is_string(tag) THEN tag.s ELSE tag.name
                 r    == func(st.wrappers[w].func, st.attrs[o])
             IN  IF r.raised
                 THEN [st EXCEPT !.result = r.error,
                                 !.log = Append(@, CallEvent(w, o))]
                 ELSE [st EXCEPT !.attrs[o][attr] = r.value,
                                 !.log = @ \o <<CallEvent(w, o),
                                                SetEvent(w, o, attr, r.value)>>]

\* an inner loop that returns after the first binding
apply_generators_first_only(funcs, o, st) ==
    IF funcs = <<>> \/ st.result # "ok" THEN st
    ELSE generate(Head(funcs), o, st)

\* an inner loop that catches what a generator raises and goes on
RECURSIVE apply_generators_catching(_, _, _)
apply_generators_catching(funcs, o, st) ==
    IF funcs = <<>> THEN st
    ELSE apply_generators_catching(Tail(funcs), o,
             [generate(Head(funcs), o, st) EXCEPT !.result = "ok"])

\* an inner loop that puts the object back as it was when a generator raises
RECURSIVE apply_generators_until_raise(_, _, _)
apply_generators_until_raise(funcs, o, st) ==
    IF funcs = <<>> \/ st.result # "ok" THEN st
    ELSE apply_generators_until_raise(Tail(funcs), o,
             generate(Head(funcs), o, st))

apply_generators_rollback(funcs, o, st) ==
    LET r == apply_generators_until_raise(funcs, o, st)
    IN  IF r.result = "ok" THEN r ELSE [r EXCEPT !.attrs[o] = st.attrs[o]]

\* the inner loop: the bindings funcs of one object, until one raises
RECURSIVE apply_generators(_, _, _)
apply_generators(funcs, o, st) ==
    IF funcs = <<>> \/ st.result # "ok" THEN st
    ELSE apply_generators(Tail(funcs), o, generate(Head(funcs), o, st))

\* a hook that walks session.new only
chain_new_only(new, dirty) == new

\* a hook that walks session.dirty first
chain_dirty_first(new, dirty) == dirty \o new

\* itertools.chain(session.new, session.dirty)
chain(new, dirty) == new \o dirty

\* defaultdict.__getitem__: reading a missing key stores an empty list under
\* it.  Yields the registry after the read; the value read is its [key].
defaultdict_getitem(reg, key) ==
    IF key \in DOMAIN reg THEN reg
    ELSE [k \in (DOMAIN reg) \cup {key} |-> IF k = key THEN <<>> ELSE reg[k]]

\* the classes a class derives from: c2 derives from c1 and has a name of its
\* own
bases(c) == IF c = "c2" THEN {"c1"} ELSE {}

\* a hook that indexes the registry without the membership test
RECURSIVE update_generated_properties_unguarded(_, _, _)
update_generated_properties_unguarded(objs, cls, st) ==
    IF objs = <<>> \/ st.result # "ok" THEN st
    ELSE LET obj    == Head(objs)
             class_ == class_name(cls[obj])
             reg    == defaultdict_getitem(st.registry, class_)
         IN  update_generated_properties_unguarded(Tail(objs), cls,
                 apply_generators(reg[class_], obj, [st EXCEPT !.registry = reg]))

\* a hook that also applies the bindings of the classes the object's class
\* derives from
RECURSIVE update_generated_properties_inherited(_, _, _)
update_generated_properties_inherited(objs, cls, st) ==
    IF objs = <<>> \/ st.result # "ok" THEN st
    ELSE LET obj    == Head(objs)
             class_ == class_name(cls[obj])
             own    == IF class_ \in DOMAIN st.registry
                       THEN st.registry[class_] ELSE <<>>
             base   == IF bases(cls[obj]) = {} THEN <<>>
                       ELSE LET b == class_name(CHOOSE x \in bases(cls[obj]) : TRUE)
                            IN  IF b \in DOMAIN st.registry
                                THEN st.registry[b] ELSE <<>>
         IN  update_generated_properties_inherited(Tail(objs), cls,
                 apply_generators(base \o own, obj, st))

\* update_generated_properties(session, ctx, instances): objs is the chain of
\* session.new and session.dirty, cls the class of each object.
RECURSIVE update_generated_properties(_, _, _)
update_generated_properties(objs, cls, st) ==
    IF objs = <<>> \/ st.result # "ok" THEN st
    ELSE LET obj    == Head(objs)
             class_ == class_name(cls[obj])
         IN  update_generated_properties(Tail(objs), cls,
                 IF class_ \in DOMAIN st.registry
                 THEN LET reg == defaultdict_getitem(st.registry, class_)
                      IN  apply_generators(reg[class_], obj,
                              [st EXCEPT !.registry = reg])
                 ELSE st)

\* an event delivered to n attached listeners runs the hook n times
RECURSIVE dispatch_mapper_configured(_, _, _, _)
dispatch_mapper_configured(n, reg, values, name) ==
    IF n = 0 THEN reg
    ELSE dispatch_mapper_configured(n - 1,
             update_generator_registry(reg, values, name), values, name)

RECURSIVE dispatch_before_flush(_, _, _, _)
dispatch_before_flush(n, objs, cls, st) ==
    IF n = 0 THEN st
    ELSE dispatch_before_flush(n - 1, objs, cls,
             update_generated_properties(objs, cls, st))

\* ------------------------------------------------------------- state
VARIABLES
    listeners_registered,   \* the module global
    listeners,              \* listeners attached by sa.event.listen, per event
    generator_registry,     \* the module global
    wrappers,               \* the wrapper functions made so far, by number
    class_dict,             \* class -> the values of its __dict__, in order
    configured,             \* class -> mapper_configured events delivered
    obj_class,              \* object -> its class, NoClass before it is made
    obj_attrs,              \* object -> attribute name -> value
    session_new,            \* session.new, in the order it yields
    session_dirty,          \* session.dirty, in the order it yields
    last,                   \* the last event, when it was a flush: the calls
                            \* and assignments of the hook in order, how it
                            \* ended, and the session as it was before
    forms,                  \* three processes that differ only in the form
                            \* of the argument of generates() (SpecForms)
    threads                 \* the threads that are inside generates(), each
                            \* with its position (SpecThreads)

vars == <<listeners_registered, listeners, generator_registry, wrappers,
          class_dict, configured, obj_class, obj_attrs, session_new,
          session_dirty, last, forms, threads>>

program == <<listeners_registered, listeners, generator_registry, wrappers,
             class_dict, configured>>

session == <<obj_class, obj_attrs, session_new, session_dirty>>

\* the decorated defs of a program: the function, the argument of generates()
\* and the place of the def (each def is executed once)
Decorations ==
    { [func |-> "strict", attr |-> Str(<<"slug">>),                       place |-> "c1"],
      [func |-> "bump",   attr |-> Column(<<"hash">>),                    place |-> "c3"],
      [func |-> "lower",  attr |-> InstrumentedAttribute("c1", <<"hash">>), place |-> Module],
      [func |-> "lower",  attr |-> Str(<<"Article", ".", "slug">>),       place |-> Module],
      [func |-> "strict", attr |-> Str(<<"User", ".", "slug">>),          place |-> "c2"],
      [func |-> "lower",  attr |-> Malformed,                             place |-> "c1"] }

NoFlush == [op |-> "other", log |-> <<>>, result |-> "none",
            new |-> <<>>, dirty |-> <<>>,
            before |-> [o \in Objs |-> [a \in AttrNames |-> 0]]]

Range(s) == {s[i] : i \in 1..Len(s)}

\* ------------------------------------------------------------- three forms
\* One process per form of the argument of generates(); the three are given
\* the same class, target attribute, function and new instance.
Forms == {"dotted", "attribute", "plain"}

\* the state of one process: the module globals, the wrappers, the members of
\* the class, the instance, how the flush ended
World0(self) ==
    [listeners_registered |-> FALSE,
     listeners  |-> [mapper_configured |-> 0, before_flush |-> 0],
     registry   |-> EmptyRegistry,
     wrappers   |-> <<>>,
     class_dict |-> <<0>>,
     attrs      |-> [o \in Objs |-> self],
     result     |-> "none"]

\* what a process passes to generates() for class c and attribute a, and
\* where its def stands
FormAttr(f, c, a) ==
    CASE f = "dotted"    -> Str(class_name(c) \o <<".">> \o a)
      [] f = "attribute" -> InstrumentedAttribute(c, a)
      [] f = "plain"     -> Str(a)

FormPlace(f, c) == IF f = "plain" THEN c ELSE Module

Scenarios == [func : Funcs, target : AttrNames \ InputAttrs, class_ : Classes,
              self : [AttrNames -> Val]]

\* no such processes (Spec)
NoForms == [phase |-> "off"]

\* no thread inside generates() (Spec, SpecForms)
NoThreads == <<>>

\* @generates(attr) def f ... in one process
world_decorate(wd, func_, attr, in_class) ==
    LET rl == register_listeners(
                  [listeners_registered |-> wd.listeners_registered,
                   mapper_configured    |-> wd.listeners.mapper_configured,
                   before_flush         |-> wd.listeners.before_flush])
        w  == Len(wd.wrappers) + 1
        r  == wraps(attr, wd.registry, w)
    IN  [wd EXCEPT !.listeners_registered = rl.listeners_registered,
                   !.listeners = [mapper_configured |-> rl.mapper_configured,
                                  before_flush      |-> rl.before_flush],
                   !.registry = r.registry,
                   !.wrappers = Append(@, [func |-> func_, attr |-> attr,
                                           generates_tag |-> r.generates_tag]),
                   !.class_dict = IF in_class THEN Append(@, w) ELSE @]

\* the mapper_configured event of the class in one process
world_configure(wd, c) ==
    [wd EXCEPT !.registry =
        dispatch_mapper_configured(wd.listeners.mapper_configured,
            wd.registry, wd.class_dict, class_name(c))]

\* session.add(instance); session.flush() in one process
world_flush(wd, o, c) ==
    LET st == dispatch_before_flush(wd.listeners.before_flush,
                  chain(<<o>>, <<>>), [x \in Objs |-> c],
                  HookState(wd.attrs, wd.registry, wd.wrappers))
    IN  [wd EXCEPT !.attrs = st.attrs, !.result = st.result,
                   !.registry = st.registry, !.wrappers = st.wrappers]

Sum(f) == f["c1"] + f["c2"] + f["c3"]

Init ==
    /\ listeners_registered = FALSE
    /\ listeners = [mapper_configured |-> 0, before_flush |-> 0]
    /\ generator_registry = EmptyRegistry
    /\ wrappers = <<>>
    \* every class has a member that is no generator (its id column)
    /\ class_dict = [c \in Classes |-> <<0>>]
    /\ configured = [c \in Classes |-> 0]
    /\ obj_class = [o \in Objs |-> NoClass]
    /\ obj_attrs = [o \in Objs |-> [a \in AttrNames |-> 0]]
    /\ session_new = <<>>
    /\ session_dirty = <<>>
    /\ last = NoFlush
    /\ forms = NoForms
    /\ threads = NoThreads

\* @generates(attr) def f ...: generates(attr) runs register_listeners(), then
\* wraps(f) makes the wrapper; a def in a class body becomes a member of the
\* class (the body of a class runs before the class exists, so before any
\* mapper_configured event of the class).
Decorate(d) ==
    /\ UNCHANGED <<forms, threads>>
    /\ Len(wrappers) < MaxWrappers
    /\ d.place # Module => configured[d.place] = 0
    /\ \A w \in 1..Len(wrappers) :
           <<wrappers[w].func, wrappers[w].attr>> # <<d.func, d.attr>>
    /\ LET rl == register_listeners(
                     [listeners_registered |-> listeners_registered,
                      mapper_configured    |-> listeners.mapper_configured,
                      before_flush         |-> listeners.before_flush])
           w  == Len(wrappers) + 1
           r  == wraps(d.attr, generator_registry, w)
       IN  /\ listeners_registered' = rl.listeners_registered
           /\ listeners' = [mapper_configured |-> rl.mapper_configured,
                            before_flush      |-> rl.before_flush]
           /\ generator_registry' = r.registry
           /\ wrappers' = Append(wrappers,
                  [func |-> d.func, attr |-> d.attr, generates_tag |-> r.generates_tag])
           /\ class_dict' = IF d.place = Module THEN class_dict
                            ELSE [class_dict EXCEPT ![d.place] = Append(@, w)]
    /\ last' = NoFlush
    /\ UNCHANGED <<configured, session>>

\* the orders in which the values of a dict can come out (insertion order
\* on the interpreters that keep it, any order on the others)
Orders(values) ==
    { [i \in 1..Len(values) |-> values[p[i]]] :
          p \in { q \in [1..Len(values) -> 1..Len(values)] :
                      \A i, j \in 1..Len(values) : q[i] = q[j] => i = j } }

\* the mapper_configured event of class c, delivered to the attached listeners
Configure(c) ==
    /\ UNCHANGED <<forms, threads>>
    /\ listeners.mapper_configured >= 1
    /\ Sum(configured) < MaxConfigured
    /\ \E values \in Orders(class_dict[c]) :
           generator_registry' =
               dispatch_mapper_configured(listeners.mapper_configured,
                   generator_registry, values, class_name(c))
    /\ configured' = [configured EXCEPT ![c] = @ + 1]
    /\ last' = NoFlush
    /\ UNCHANGED <<listeners_registered, listeners, wrappers, class_dict, session>>

\* session.add(C(name=v)): a new instance of class c
Add(o, c, v) ==
    /\ UNCHANGED <<forms, threads>>
    /\ obj_class[o] = NoClass
    /\ obj_class' = [obj_class EXCEPT ![o] = c]
    /\ obj_attrs' = [obj_attrs EXCEPT ![o][<<"name">>] = v]
    /\ session_new' = Append(session_new, o)
    /\ last' = NoFlush
    /\ UNCHANGED <<program, session_dirty>>

\* obj.name = v by the application: a persistent object becomes dirty
Modify(o, a, v) ==
    /\ UNCHANGED <<forms, threads>>
    /\ obj_class[o] # NoClass
    /\ obj_attrs[o][a] # v
    /\ obj_attrs' = [obj_attrs EXCEPT ![o][a] = v]
    /\ session_dirty' = IF o \in Range(session_new) \cup Range(session_dirty)
                        THEN session_dirty ELSE Append(session_dirty, o)
    /\ last' = NoFlush
    /\ UNCHANGED <<program, obj_class, session_new>>

\* session.flush(): the before_flush event, delivered to the attached
\* listeners; when no listener raises the session writes the objects out
Flush ==
    /\ UNCHANGED <<forms, threads>>
    /\ session_new \o session_dirty # <<>>
    /\ LET objs == chain(session_new, session_dirty)
           st   == dispatch_before_flush(listeners.before_flush, objs, obj_class,
                       HookState(obj_attrs, generator_registry, wrappers))
       IN  /\ obj_attrs' = st.attrs
           /\ generator_registry' = st.registry
           /\ wrappers' = st.wrappers
           /\ last' = [op |-> "flush", log |-> st.log, result |-> st.result,
                       new |-> session_new, dirty |-> session_dirty,
                       before |-> obj_attrs]
           /\ IF st.result = "ok"
              THEN session_new' = <<>> /\ session_dirty' = <<>>
              ELSE UNCHANGED <<session_new, session_dirty>>
    /\ UNCHANGED <<listeners_registered, listeners, class_dict, configured, obj_class>>

Next ==
    \/ \E d \in Decorations : Decorate(d)
    \/ \E c \in Classes : Configure(c)
    \/ \E o \in Objs, v \in Val : \E c \in ObjClasses(o) : Add(o, c, v)
    \/ \E o \in Objs, a \in InputAttrs, v \in Val : Modify(o, a, v)
    \/ Flush

Spec == Init /\ [][Next]_vars

\* ------------------------------------------------------------- SpecForms
\* The three processes run the same program in step: decorate, configure the
\* class once, add a new instance and flush.
TheInstance == "o1"

InitForms ==
    /\ listeners_registered = FALSE
    /\ listeners = [mapper_configured |-> 0, before_flush |-> 0]
    /\ generator_registry = EmptyRegistry
    /\ wrappers = <<>>
    /\ class_dict = [c \in Classes |-> <<0>>]
    /\ configured = [c \in Classes |-> 0]
    /\ obj_class = [o \in Objs |-> NoClass]
    /\ obj_attrs = [o \in Objs |-> [a \in AttrNames |-> 0]]
    /\ session_new = <<>>
    /\ session_dirty = <<>>
    /\ last = NoFlush
    /\ \E sc \in Scenarios :
           forms = [phase |-> "start", scenario |-> sc,
                    world |-> [f \in Forms |-> World0(sc.self)]]
    /\ threads = NoThreads

FormsDecorate ==
    /\ forms.phase = "start"
    /\ forms' = [forms EXCEPT
           !.phase = "decorated",
           !.world = [f \in Forms |->
               world_decorate(forms.world[f], forms.scenario.func,
                   FormAttr(f, forms.scenario.class_, forms.scenario.target),
                   FormPlace(f, forms.scenario.class_) # Module)]]
    /\ UNCHANGED <<program, session, last, threads>>

FormsConfigure ==
    /\ forms.phase = "decorated"
    /\ forms' = [forms EXCEPT
           !.phase = "configured",
           !.world = [f \in Forms |->
               world_configure(forms.world[f], forms.scenario.class_)]]
    /\ UNCHANGED <<program, session, last, threads>>

FormsFlush ==
    /\ forms.phase = "configured"
    /\ forms' = [forms EXCEPT
           !.phase = "flushed",
           !.world = [f \in Forms |->
               world_flush(forms.world[f], TheInstance, forms.scenario.class_)]]
    /\ UNCHANGED <<program, session, last, threads>>

NextForms == FormsDecorate \/ FormsConfigure \/ FormsFlush

SpecForms == InitForms /\ [][NextForms]_vars

\* ------------------------------------------------------------- SpecThreads
\* Two threads apply the decorator at the same time, each to a def of its own.
\* A thread runs generates(attr): register_listeners() statement by statement
\* (the test of the flag, the two sa.event.listen calls, the assignment of the
\* flag), then wraps(func).  Nothing in the module orders the statements of
\* one thread against those of the other.
ThreadIds == {"t1", "t2"}

\* the defs the threads decorate: those at module level and the one tagged
\* with a plain name
ThreadDecorations ==
    { d \in Decorations :
          d.place = Module \/ (is_string(d.attr) /\ ~HasDot(d.attr.s)) }

InitThreads ==
    /\ listeners_registered = FALSE
    /\ listeners = [mapper_configured |-> 0, before_flush |-> 0]
    /\ generator_registry = EmptyRegistry
    /\ wrappers = <<>>
    /\ class_dict = [c \in Classes |-> <<0>>]
    /\ configured = [c \in Classes |-> 0]
    /\ obj_class = [o \in Objs |-> NoClass]
    /\ obj_attrs = [o \in Objs |-> [a \in AttrNames |-> 0]]
    /\ session_new = <<>>
    /\ session_dirty = <<>>
    /\ last = NoFlush
    /\ forms = NoForms
    /\ \E d1, d2 \in ThreadDecorations :
           /\ d1 # d2
           /\ threads = [t \in ThreadIds |->
                  [pc |-> "test", def |-> IF t = "t1" THEN d1 ELSE d2]]

\* if not listeners_registered:
ThreadTest(t) ==
    /\ threads[t].pc = "test"
    /\ threads' = [threads EXCEPT ![t].pc =
           IF ~listeners_registered THEN "listen_mapper_configured" ELSE "wraps"]
    /\ UNCHANGED <<program, session, last, forms>>

\* sa.event.listen(sa.orm.mapper, 'mapper_configured', update_generator_registry)
ThreadListenMapperConfigured(t) ==
    /\ threads[t].pc = "listen_mapper_configured"
    /\ listeners' = [listeners EXCEPT !.mapper_configured = @ + 1]
    /\ threads' = [threads EXCEPT ![t].pc = "listen_before_flush"]
    /\ UNCHANGED <<listeners_registered, generator_registry, wrappers, class_dict,
                   configured, session, last, forms>>

\* sa.event.listen(sa.orm.session.Session, 'before_flush', update_generated_properties)
ThreadListenBeforeFlush(t) ==
    /\ threads[t].pc = "listen_before_flush"
    /\ listeners' = [listeners EXCEPT !.before_flush = @ + 1]
    /\ threads' = [threads EXCEPT ![t].pc = "set_flag"]
    /\ UNCHANGED <<listeners_registered, generator_registry, wrappers, class_dict,
                   configured, session, last, forms>>

\* listeners_registered = True
ThreadSetFlag(t) ==
    /\ threads[t].pc = "set_flag"
    /\ listeners_registered' = TRUE
    /\ threads' = [threads EXCEPT ![t].pc = "wraps"]
    /\ UNCHANGED <<listeners, generator_registry, wrappers, class_dict,
                   configured, session, last, forms>>

\* return wraps, and the decorator applied to the def
ThreadWraps(t) ==
    /\ threads[t].pc = "wraps"
    /\ threads[t].def.place # Module => configured[threads[t].def.place] = 0
    /\ LET d == threads[t].def
           w == Len(wrappers) + 1
           r == wraps(d.attr, generator_registry, w)
       IN  /\ generator_registry' = r.registry
           /\ wrappers' = Append(wrappers,
                  [func |-> d.func, attr |-> d.attr, generates_tag |-> r.generates_tag])
           /\ class_dict' = IF d.place = Module THEN class_dict
                            ELSE [class_dict EXCEPT ![d.place] = Append(@, w)]
    /\ threads' = [threads EXCEPT ![t].pc = "done"]
    /\ last' = NoFlush
    /\ UNCHANGED <<listeners_registered, listeners, configured, session, forms>>

\* the threads, and the events of the program around them
NextThreads ==
    \/ \E t \in ThreadIds : ThreadTest(t)
    \/ \E t \in ThreadIds : ThreadListenMapperConfigured(t)
    \/ \E t \in ThreadIds : ThreadListenBeforeFlush(t)
    \/ \E t \in ThreadIds : ThreadSetFlag(t)
    \/ \E t \in ThreadIds : ThreadWraps(t)
    \/ \E c \in Classes : Configure(c)
    \/ \E o \in Objs, v \in Val : \E c \in ObjClasses(o) : Add(o, c, v)
    \/ \E o \in Objs, a \in InputAttrs, v \in Val : Modify(o, a, v)
    \/ Flush

SpecThreads == InitThreads /\ [][NextThreads]_vars

\* ------------------------------------------------------------- vocabulary
\* the attribute a wrapper generates: its __generates__ when that is a string,
\* else the name of its __generates__
Target(w) ==
    IF wrappers[w].generates_tag.kind = "str"
    THEN wrappers[w].generates_tag.s
    ELSE wrappers[w].generates_tag.name

\* the registry entry of the class name of object o (empty when there is none)
Entry(o) ==
    IF class_name(obj_class[o]) \in DOMAIN generator_registry
    THEN generator_registry[class_name(obj_class[o])]
    ELSE <<>>

\* the classes a wrapper was registered for: the class of the attribute handle
\* it was given, the classes that have the name a dotted string gives, the
\* classes it is a member of
RegisteredFor(w) ==
    LET attr == wrappers[w].attr
    IN  (IF attr.kind = "InstrumentedAttribute" THEN {attr.class_} ELSE {})
        \cup (IF attr.kind = "str" /\ HasDot(attr.s)
              THEN {c \in Classes : class_name(c) = split(attr.s)[1]} ELSE {})
        \cup {c \in Classes : w \in Range(class_dict[c])}

\* every binding in the entry of object o was registered for the class of o
OwnEntry(o) ==
    \A i \in 1..Len(Entry(o)) : obj_class[o] \in RegisteredFor(Entry(o)[i])

Flushed == last.op = "flush"

FlushedOk == last.op = "flush" /\ last.result = "ok"

\* the objects of session.new and session.dirty when the last flush began
Affected == Range(last.new) \cup Range(last.dirty)

\* the positions in the log of the hook's calls on object o
Calls(o) == { k \in 1..Len(last.log) : last.log[k].ev = "call" /\ last.log[k].obj = o }

\* the position of the i-th call on object o (0 when there was none)
CallPos(o, i) ==
    IF \E k \in Calls(o) : Cardinality({j \in Calls(o) : j <= k}) = i
    THEN CHOOSE k \in Calls(o) : Cardinality({j \in Calls(o) : j <= k}) = i
    ELSE 0

\* the value of attribute a of object o just before log position k: what the
\* latest earlier assignment gave it, else what it was when the flush began
ValueAt(o, a, k) ==
    LET sets == { j \in 1..(k - 1) : /\ j <= Len(last.log)
                                    /\ last.log[j].ev = "set"
                                    /\ last.log[j].obj = o
                                    /\ last.log[j].attr = a }
    IN  IF sets = {} THEN last.before[o][a]
        ELSE last.log[CHOOSE j \in sets : \A i \in sets : i <= j].value

SelfAt(o, k) == [a \in AttrNames |-> ValueAt(o, a, k)]

\* the log accounts for the objects: every attribute is what the assignments
\* of the log made of it
LogExplainsAttrs ==
    \A o \in Objs : obj_attrs[o] = SelfAt(o, Len(last.log) + 1)

\* ------------------------------------------------------------- C1
\* C1: after the flush hook returned normally, for every object of
\* session.new or session.dirty whose class name has a registry entry, and for
\* every binding of the entry: the hook called the binding's generator with
\* that object, and the target attribute holds the value that call returned,
\* unless a later binding of the entry has the same target (then the later
\* binding's value is the one that stays).
C1_FlushSetsGeneratedValue ==
    FlushedOk =>
        \A o \in Affected :
            \A i \in 1..Len(Entry(o)) :
                LET w == Entry(o)[i]
                    k == CallPos(o, i)
                IN  /\ k # 0
                    /\ last.log[k].w = w
                    /\ LET r == func(wrappers[w].func, SelfAt(o, k))
                       IN  /\ ~r.raised
                           /\ (\A j \in (i + 1)..Len(Entry(o)) :
                                   Target(Entry(o)[j]) # Target(w))
                              => obj_attrs[o][Target(w)] = r.value

\* a flush that returned normally, over a new and a dirty object; one of them
\* has two bindings with the same target that return different values, and the
\* attribute has changed to the second one's value
C1_Witness ==
    /\ FlushedOk
    /\ last.new # <<>> /\ last.dirty # <<>>
    /\ \E o \in Affected :
           /\ Len(Entry(o)) = 2
           /\ Target(Entry(o)[1]) = Target(Entry(o)[2])
           /\ wrappers[Entry(o)[1]].func # wrappers[Entry(o)[2]].func
           /\ last.log[CallPos(o, 1) + 1].value # last.log[CallPos(o, 2) + 1].value
           /\ obj_attrs[o][Target(Entry(o)[2])] # last.before[o][Target(Entry(o)[2])]
           /\ obj_attrs[o][Target(Entry(o)[2])] = last.log[CallPos(o, 2) + 1].value

\* ------------------------------------------------------------- C2
\* C2: for the same class, target attribute and generator function, the dotted
\* string, the attribute handle and the plain name on a method of the class
\* leave a flushed new instance with identical attribute values (and end the
\* flush the same way), the class having been configured once.
C2_FormsAgree ==
    forms.phase = "flushed" =>
        \A f, g \in Forms :
            /\ forms.world[f].attrs[TheInstance] = forms.world[g].attrs[TheInstance]
            /\ forms.world[f].result = forms.world[g].result

\* the three flushes returned normally and each changed the target attribute
C2_Witness ==
    /\ forms.phase = "flushed"
    /\ \A f \in Forms :
           /\ forms.world[f].result = "ok"
           /\ forms.world[f].attrs[TheInstance][forms.scenario.target]
                  # forms.scenario.self[forms.scenario.target]
           /\ Len(forms.world[f].registry[class_name(forms.scenario.class_)]) = 1

\* ------------------------------------------------------------- C3
\* C3: a generator registered for class A is never invoked on, and never
\* assigns an attribute of, an instance of another class B: every call and
\* assignment of the flush hook is on an object whose class the wrapper was
\* registered for.
C3_NoCrossClassGenerator ==
    Flushed =>
        \A k \in 1..Len(last.log) :
            obj_class[last.log[k].obj] \in RegisteredFor(last.log[k].w)

\* ------------------------------------------------------------- C4
\* the call at log position k raised
RaisedAt(k) ==
    /\ last.log[k].ev = "call"
    /\ func(wrappers[last.log[k].w].func, SelfAt(last.log[k].obj, k)).raised

ErrorAt(k) == func(wrappers[last.log[k].w].func, SelfAt(last.log[k].obj, k)).error

\* C4: when a generator raises during the flush hook, the hook ends with that
\* error, and the raising call is the last thing the hook did: no call and no
\* assignment follows it, and the attributes are what the assignments before
\* it made them.
C4_GeneratorErrorPropagates ==
    Flushed =>
        \A k \in 1..Len(last.log) :
            RaisedAt(k) =>
                /\ last.result = ErrorAt(k)
                /\ k = Len(last.log)
                /\ LogExplainsAttrs

\* the object the hook was working on when it stopped
FailedObj == last.log[Len(last.log)].obj

\* a flush that a generator stopped: bindings of the object were left, and a
\* later object with bindings was never touched
C4_Witness ==
    /\ Flushed /\ last.result = "ValueError"
    /\ RaisedAt(Len(last.log))
    /\ Cardinality(Calls(FailedObj)) < Len(Entry(FailedObj))
    /\ \E o \in Affected : o # FailedObj /\ Entry(o) # <<>> /\ Calls(o) = {}

\* ------------------------------------------------------------- C5
\* C5 as stated: when a generator raises for an object, every attribute of
\* that object has the value it had before the flush hook started.  (Stated
\* for the objects whose bindings are all their own class's, so that a
\* violation owes nothing to bindings of another class of the same name.)
C5_FailedObjectUntouched ==
    (Flushed /\ last.result = "ValueError" /\ OwnEntry(FailedObj)) =>
        obj_attrs[FailedObj] = last.before[FailedObj]

\* the bindings of the failed object that ran before the one that raised
RanBefore == 1..(Cardinality(Calls(FailedObj)) - 1)

\* C5 (amended): when a generator raises for an object, the failing binding
\* and the bindings after it have set nothing: an attribute that a binding
\* before the failing one targets holds the value the last such binding
\* returned, and every other attribute of the object has the value it had
\* before the flush hook started (so all of them, when the first binding fails).
C5_FailedObjectKeepsEarlierValues ==
    (Flushed /\ last.result = "ValueError") =>
        \A a \in AttrNames :
            LET js == { j \in RanBefore : Target(Entry(FailedObj)[j]) = a }
            IN  IF js = {}
                THEN obj_attrs[FailedObj][a] = last.before[FailedObj][a]
                ELSE LET j == CHOOSE x \in js : \A y \in js : y <= x
                         w == Entry(FailedObj)[j]
                     IN  obj_attrs[FailedObj][a] =
                             func(wrappers[w].func,
                                  SelfAt(FailedObj, CallPos(FailedObj, j))).value

\* the second binding of an object raised after the first one had changed an
\* attribute
C5_Witness ==
    /\ Flushed /\ last.result = "ValueError"
    /\ RanBefore # {}
    /\ obj_attrs[FailedObj] # last.before[FailedObj]

\* ------------------------------------------------------------- C6
\* C6: after one or more calls of generates() each of the two hooks is
\* attached exactly once and listeners_registered is true; before the first
\* call nothing is attached and the flag is false.
C6_ListenersInstalledOnce ==
    IF Len(wrappers) = 0
    THEN /\ ~listeners_registered
         /\ listeners = [mapper_configured |-> 0, before_flush |-> 0]
    ELSE /\ listeners_registered
         /\ listeners = [mapper_configured |-> 1, before_flush |-> 1]

\* the decorator has been applied more than once
C6_Witness ==
    /\ Len(wrappers) >= 2
    /\ listeners_registered
    /\ listeners.mapper_configured = 1 /\ listeners.before_flush = 1

\* ------------------------------------------------------------- C7
IsPrefix(s, t) == Len(s) <= Len(t) /\ SubSeq(t, 1, Len(s)) = s

\* C7: the registry is append-only: in every step every key stays and its
\* sequence of bindings after the step begins with its sequence before.
C7_RegistryAppendOnly ==
    [][\A k \in DOMAIN generator_registry :
           /\ k \in DOMAIN generator_registry'
           /\ IsPrefix(generator_registry[k], generator_registry'[k])]_vars

\* an entry that grew by a decoration and by a configuration, flushed since
C7_Witness ==
    /\ Flushed
    /\ \E c \in Classes : configured[c] >= 1
    /\ \E k \in DOMAIN generator_registry :
           /\ Len(generator_registry[k]) >= 2
           /\ \E i, j \in 1..Len(generator_registry[k]) :
                  /\ wrappers[generator_registry[k][i]].attr.kind = "str"
                  /\ wrappers[generator_registry[k][j]].attr.kind # "str"

\* ------------------------------------------------------------- C8
\* the bindings of an entry target pairwise different attributes
DistinctTargets(e) ==
    \A i, j \in 1..Len(e) : i # j => Target(e[i]) # Target(e[j])

\* no binding of an entry reads an attribute that another binding targets
NoCrossRead(e) ==
    \A i, j \in 1..Len(e) :
        i # j => Target(e[j]) \notin Reads(wrappers[e[i]].func)

\* the tags of an entry all name an attribute
Resolvable(e) ==
    \A i \in 1..Len(e) :
        is_string(wrappers[e[i]].generates_tag) \/ has_name(wrappers[e[i]].generates_tag)

\* the object as the bindings e, run in this order, leave it
Applied(e, o) ==
    apply_generators(e, o,
        HookState(last.before, generator_registry, wrappers)).attrs[o]

IsPlain(attr) == attr.kind = "str" /\ ~HasDot(attr.s)

IsDotted(attr) == attr.kind = "str" /\ HasDot(attr.s)

Count(w, e) == Cardinality({i \in 1..Len(e) : e[i] = w})

CountIn(w, reg, key) == IF key \in DOMAIN reg THEN Count(w, reg[key]) ELSE 0

\* the step applies the decorator
Decorating == Len(wrappers') = Len(wrappers) + 1

\* the classes that have wrapper w among their members
Owners(w) == {c \in Classes : w \in Range(class_dict[c])}

\* the calls of wrapper w in the last flush
CallsOf(w) == { k \in 1..Len(last.log) : last.log[k].ev = "call" /\ last.log[k].w = w }

C9_State ==
    \A w \in 1..Len(wrappers) :
        IsPlain(wrappers[w].attr) =>
            /\ wrappers[w].generates_tag = wrappers[w].attr
            /\ (\A c \in Owners(w) : configured[c] = 0)
                   => /\ \A key \in DOMAIN generator_registry :
                             Count(w, generator_registry[key]) = 0
                      /\ CallsOf(w) = {}

C9_Step ==
    /\ (Decorating /\ IsPlain(wrappers'[Len(wrappers')].attr))
           => generator_registry' = generator_registry
    /\ \A w \in 1..Len(wrappers) :
           IsPlain(wrappers[w].attr) =>
               \A key \in DOMAIN generator_registry' :
                   CountIn(w, generator_registry', key) > CountIn(w, generator_registry, key)
                       => \E c \in Owners(w) :
                              /\ class_name(c) = key
                              /\ configured'[c] = configured[c] + 1

\* C9: decorating with a plain name tags the wrapper with that name and leaves
\* the registry unchanged; the wrapper enters the registry only in a
\* configuration of a class that has it among its members, under that class's
\* name; while no such class has been configured, no flush calls it.
C9_PlainNameDeferred == [](C9_State) /\ [][C9_Step]_vars

\* a flush of an instance of the owning class before the class was configured
\* called nothing, though the class has a wrapper tagged with a plain name
C9_Witness ==
    /\ Flushed
    /\ \E w \in 1..Len(wrappers) :
           /\ IsPlain(wrappers[w].attr)
           /\ \E c \in Owners(w) :
                  /\ configured[c] = 0
                  /\ \E o \in Affected : obj_class[o] = c
           /\ CallsOf(w) = {}

\* ------------------------------------------------------------- C10
\* the text before the first dot, and the text between the first two dots
FirstDot(s) == CHOOSE i \in 1..Len(s) : s[i] = "." /\ \A j \in 1..(i - 1) : s[j] # "."

BeforeDot(s) == SubSeq(s, 1, FirstDot(s) - 1)

AfterDot(s) ==
    LET rest == SubSeq(s, FirstDot(s) + 1, Len(s))
    IN  IF HasDot(rest) THEN BeforeDot(rest) ELSE rest

C10_State ==
    \A w \in 1..Len(wrappers) :
        IsDotted(wrappers[w].attr) =>
            LET key  == BeforeDot(wrappers[w].attr.s)
                name == AfterDot(wrappers[w].attr.s)
            IN  /\ key \in DOMAIN generator_registry
                /\ Count(w, generator_registry[key]) >= 1
                /\ wrappers[w].generates_tag = Str(name)
                /\ FlushedOk =>
                       \A o \in Affected :
                           class_name(obj_class[o]) = key =>
                               \E k \in Calls(o) :
                                   /\ last.log[k].w = w
                                   /\ last.log[k + 1] =
                                          SetEvent(w, o, name,
                                              func(wrappers[w].func, SelfAt(o, k)).value)

C10_Step ==
    (Decorating /\ IsDotted(wrappers'[Len(wrappers')].attr)) =>
        LET key == BeforeDot(wrappers'[Len(wrappers')].attr.s)
        IN  /\ DOMAIN generator_registry' = DOMAIN generator_registry \cup {key}
            /\ \A k \in DOMAIN generator_registry' :
                   generator_registry'[k] =
                       IF k = key
                       THEN (IF key \in DOMAIN generator_registry
                             THEN generator_registry[key] ELSE <<>>)
                            \o <<Len(wrappers')>>
                       ELSE generator_registry[k]

\* C10: decorating with 'ClassName.attrName' appends the wrapper to the entry
\* of ClassName in that step, with tag attrName, whatever classes exist or are
\* configured; from then on every flush that returns normally has called it on
\* each affected object whose class name is ClassName and assigned attrName.
C10_DottedRegistersAtOnce == [](C10_State) /\ [][C10_Step]_vars

\* a wrapper registered by a dotted string has set its attribute on an
\* instance of a class of that name that was never configured
C10_Witness ==
    /\ FlushedOk
    /\ \E w \in 1..Len(wrappers) :
           /\ IsDotted(wrappers[w].attr)
           /\ \A c \in Classes : configured[c] = 0
           /\ \E o \in Affected :
                  /\ class_name(obj_class[o]) = BeforeDot(wrappers[w].attr.s)
                  /\ obj_attrs[o][AfterDot(wrappers[w].attr.s)]
                         # last.before[o][AfterDot(wrappers[w].attr.s)]

\* ------------------------------------------------------------- C11
\* the calls of wrapper w on object o in the last flush
CallsOn(w, o) == { k \in Calls(o) : last.log[k].w = w }

\* the step delivers mapper_configured for class c
Configuring(c) == configured'[c] = configured[c] + 1

C11_State ==
    \A w \in 1..Len(wrappers) :
        IsPlain(wrappers[w].attr) =>
            \A c \in Owners(w) :
                /\ CountIn(w, generator_registry, class_name(c)) = configured[c]
                /\ FlushedOk =>
                       \A o \in Affected :
                           obj_class[o] = c =>
                               Cardinality(CallsOn(w, o)) = configured[c]

C11_Step ==
    \A c \in Classes :
        Configuring(c) =>
            /\ \A w \in Range(class_dict[c]) \ {0} :
                   CountIn(w, generator_registry', class_name(c))
                       = CountIn(w, generator_registry, class_name(c)) + 1
            /\ \A w \in (1..Len(wrappers)) \ Range(class_dict[c]) :
                   CountIn(w, generator_registry', class_name(c))
                       = CountIn(w, generator_registry, class_name(c))

\* C11: every configuration of a class appends each tagged member of the class
\* to the entry of the class's name once more (and nothing else); a wrapper
\* tagged with a plain name is in the entry as many times as its class was
\* configured, and a flush that returns normally has called it that many times
\* on each affected instance of the class.
C11_ReconfigurationDuplicates == [](C11_State) /\ [][C11_Step]_vars

\* a class configured twice: its plain-name generator is twice in the entry
\* and a flush called it twice on an instance
C11_Witness ==
    /\ FlushedOk
    /\ \E w \in 1..Len(wrappers) :
           /\ IsPlain(wrappers[w].attr)
           /\ \E c \in Owners(w) :
                  /\ configured[c] = 2
                  /\ Count(w, generator_registry[class_name(c)]) = 2
                  /\ \E o \in Affected :
                         obj_class[o] = c /\ Cardinality(CallsOn(w, o)) = 2

\* ------------------------------------------------------------- C12
\* the calls the hook made, in order: <<object, wrapper>>
RECURSIVE CallSeq(_)
CallSeq(log) ==
    IF log = <<>> THEN <<>>
    ELSE (IF Head(log).ev = "call" THEN <<<<Head(log).obj, Head(log).w>>>> ELSE <<>>)
         \o CallSeq(Tail(log))

\* the bindings of object o in registry order: <<o, wrapper>>
Bindings(o) == [i \in 1..Len(Entry(o)) |-> <<o, Entry(o)[i]>>]

\* the calls of a complete walk over objs: object after object, each with all
\* its bindings in registry order
RECURSIVE WalkOrder(_)
WalkOrder(objs) ==
    IF objs = <<>> THEN <<>> ELSE Bindings(Head(objs)) \o WalkOrder(Tail(objs))

\* C12: the calls of a flush are, in this order: for every object of
\* session.new in the order it yields, then for every object of session.dirty
\* in the order it yields, the bindings of the object's class in registry
\* order; a flush that fails has made an initial part of these calls.  Every
\* assignment follows the call of its binding at once.
C12_WalkOrder ==
    Flushed =>
        /\ IsPrefix(CallSeq(last.log), WalkOrder(last.new \o last.dirty))
        /\ last.result = "ok" =>
               CallSeq(last.log) = WalkOrder(last.new \o last.dirty)
        /\ \A k \in 1..Len(last.log) :
               last.log[k].ev = "set" =>
                   /\ k > 1
                   /\ last.log[k - 1] = CallEvent(last.log[k].w, last.log[k].obj)

\* a flush that returned normally, over a new and a dirty object that both
\* have bindings, one of them more than one
C12_Witness ==
    /\ FlushedOk
    /\ \E o \in Range(last.new), p \in Range(last.dirty) :
           /\ Calls(o) # {} /\ Calls(p) # {}
           /\ Cardinality(Calls(o)) + Cardinality(Calls(p)) >= 3
           /\ \A i \in Calls(o), j \in Calls(p) : i < j

\* ------------------------------------------------------------- C13
\* the tag the decorator gives a wrapper for the argument attr
TagGiven(attr) == IF IsDotted(attr) THEN Str(AfterDot(attr.s)) ELSE attr

C13_State ==
    /\ \A w \in 1..Len(wrappers) :
           wrappers[w].generates_tag = TagGiven(wrappers[w].attr)
    /\ \A key \in DOMAIN generator_registry :
           \A i \in 1..Len(generator_registry[key]) :
               generator_registry[key][i] \in 1..Len(wrappers)

C13_Step ==
    \A w \in 1..Len(wrappers) :
        /\ w \in 1..Len(wrappers')
        /\ wrappers'[w].generates_tag = wrappers[w].generates_tag

\* C13: every wrapper, so every binding of the registry, carries the tag the
\* decorator gave it, and no step (no later decoration, no configuration, no
\* flush) changes the tag of a wrapper that exists: a tag that is not a string
\* is still not a string after the flush hook has resolved its name.
C13_TagFixedAtDecoration == [](C13_State) /\ [][C13_Step]_vars

\* after a configuration, a flush has assigned the attribute named by a tag
\* that is not a string, and the tag is as it was
C13_Witness ==
    /\ FlushedOk
    /\ \E c \in Classes : configured[c] >= 1
    /\ \E w \in 1..Len(wrappers) :
           /\ ~is_string(wrappers[w].generates_tag)
           /\ wrappers[w].generates_tag = wrappers[w].attr
           /\ \E k \in 1..Len(last.log) :
                  /\ last.log[k].ev = "set"
                  /\ last.log[k].w = w
                  /\ last.log[k].attr = wrappers[w].generates_tag.name

\* ------------------------------------------------------------- C14
\* the tag of wrapper w is neither a string nor an object with a name
Unresolvable(w) ==
    ~is_string(wrappers[w].generates_tag) /\ ~has_name(wrappers[w].generates_tag)

\* the entry of object o holds a binding whose tag cannot be resolved
HasUnresolvable(o) == \E i \in 1..Len(Entry(o)) : Unresolvable(Entry(o)[i])

\* the last thing the hook did was a call that raised
EndedInRaise == Len(last.log) > 0 /\ RaisedAt(Len(last.log))

C14_State ==
    Flushed =>
        LET walk == WalkOrder(last.new \o last.dirty)
            n    == Len(CallSeq(last.log))
        IN  /\ \A k \in 1..Len(last.log) : ~Unresolvable(last.log[k].w)
            /\ \A o \in Affected : HasUnresolvable(o) => last.result # "ok"
            /\ ((\E o \in Affected : HasUnresolvable(o)) /\ ~EndedInRaise)
                   => last.result = "AttributeError"
            /\ last.result = "AttributeError" =>
                   /\ n < Len(walk)
                   /\ Unresolvable(walk[n + 1][2])
                   /\ LogExplainsAttrs

C14_Step ==
    (Decorating /\ wrappers'[Len(wrappers')].attr = Malformed) =>
        /\ generator_registry' = generator_registry
        /\ wrappers'[Len(wrappers')].generates_tag = Malformed

\* C14: decorating with a target that is neither a string nor an attribute
\* handle and has no name leaves the registry unchanged and tags the wrapper
\* with that object.  A flush over an instance whose entry holds such a binding
\* never returns normally: unless an earlier generator call raised, it ends
\* with AttributeError at that binding, the first one the hook has not called;
\* the binding's generator is never called and nothing is assigned for it.
C14_MalformedTargetFailsAtFlush == [](C14_State) /\ [][C14_Step]_vars

\* a flush ended with AttributeError at the second binding of an object, after
\* the first binding had changed an attribute
C14_Witness ==
    /\ Flushed /\ last.result = "AttributeError"
    /\ \E o \in Affected :
           /\ Calls(o) # {}
           /\ Cardinality(Calls(o)) < Len(Entry(o))
           /\ Unresolvable(Entry(o)[Cardinality(Calls(o)) + 1])
           /\ obj_attrs[o] # last.before[o]

\* ------------------------------------------------------------- C15
\* C15: whatever the interleaving of two threads that call generates() while
\* listeners_registered is false, each hook is attached at most once, and no
\* flush calls a binding on an object more often than the entry of the
\* object's class holds it.
C15_HooksInstalledAtMostOnce ==
    /\ listeners.mapper_configured <= 1
    /\ listeners.before_flush <= 1
    /\ Flushed =>
           \A o \in Affected :
               \A w \in 1..Len(wrappers) :
                   Cardinality(CallsOn(w, o)) <= Count(w, Entry(o))

\* ------------------------------------------------------------- C16
\* the step is a flush
Flushing == last'.op = "flush"

\* the class name of object o has no registry entry
NoEntry(o) == class_name(obj_class[o]) \notin DOMAIN generator_registry

C16_State == \A key \in DOMAIN generator_registry : generator_registry[key] # <<>>

C16_Step ==
    Flushing =>
        /\ generator_registry' = generator_registry
        /\ listeners_registered' = listeners_registered
        /\ listeners' = listeners
        /\ \A o \in Objs :
               (obj_class[o] # NoClass /\ NoEntry(o)) =>
                   /\ obj_attrs'[o] = obj_attrs[o]
                   /\ class_name(obj_class[o]) \notin DOMAIN generator_registry'

\* C16: a flush leaves the registry (its keys and every entry), the flag and
\* the attached hooks as they were, and changes no attribute of an object
\* whose class name has no entry; such a class name still has no entry after
\* the flush, and no entry of the registry is ever empty.
C16_FlushFrame == [](C16_State) /\ [][C16_Step]_vars

\* a flush over an object whose class name has no entry and an object that has
\* bindings: the second was changed, the first was not and still has no entry
C16_Witness ==
    /\ FlushedOk
    /\ \E o, p \in Affected :
           /\ NoEntry(o)
           /\ obj_attrs[o] = last.before[o]
           /\ Entry(p) # <<>>
           /\ obj_attrs[p] # last.before[p]

\* ------------------------------------------------------------- C17
\* wrapper w was given the dotted string 'C.attr' in the body of class c,
\* whose name is C
DottedMemberOf(w, c) ==
    /\ IsDotted(wrappers[w].attr)
    /\ c \in Owners(w)
    /\ class_name(c) = BeforeDot(wrappers[w].attr.s)

\* wrapper w was given an attribute handle outside every class body
HandleOutside(w) ==
    wrappers[w].attr.kind = "InstrumentedAttribute" /\ Owners(w) = {}

\* C17: a wrapper given the dotted string 'C.attr' in the body of class C is in
\* C's entry once more than C was configured (twice after one configuration),
\* and a flush that returns normally has called it that many times on each
\* affected instance of C; a wrapper given a plain name in the body of C is in
\* the entry once after one configuration, and a wrapper given an attribute
\* handle outside the class bodies is in the entry of the handle's class once,
\* whatever was configured.
C17_DottedMemberRegisteredTwice ==
    \A w \in 1..Len(wrappers) :
        /\ \A c \in Classes :
               DottedMemberOf(w, c) =>
                   /\ CountIn(w, generator_registry, class_name(c)) = configured[c] + 1
                   /\ FlushedOk =>
                          \A o \in Affected :
                              obj_class[o] = c =>
                                  Cardinality(CallsOn(w, o)) = configured[c] + 1
        /\ \A c \in Owners(w) :
               (IsPlain(wrappers[w].attr) /\ configured[c] = 1) =>
                   CountIn(w, generator_registry, class_name(c)) = 1
        /\ HandleOutside(w) =>
               CountIn(w, generator_registry, class_name(wrappers[w].attr.class_)) = 1

\* a class configured once whose dotted member is twice in the entry and was
\* called twice on an instance, beside a wrapper given a handle outside the
\* class bodies that is once in its entry
C17_Witness ==
    /\ FlushedOk
    /\ \E w \in 1..Len(wrappers), c \in Classes :
           /\ DottedMemberOf(w, c)
           /\ configured[c] = 1
           /\ Count(w, generator_registry[class_name(c)]) = 2
           /\ \E o \in Affected :
                  obj_class[o] = c /\ Cardinality(CallsOn(w, o)) = 2
    /\ \E w \in 1..Len(wrappers) :
           /\ HandleOutside(w)
           /\ Count(w, generator_registry[class_name(wrappers[w].attr.class_)]) = 1

\* ------------------------------------------------------------- C18
\* class s derives from class p and has another name
SubclassOf(s, p) == p \in bases(s) /\ class_name(s) # class_name(p)

\* wrapper w was registered for class p and not for class s
OnlyFor(w, p, s) == p \in RegisteredFor(w) /\ s \notin RegisteredFor(w)

\* C18: a wrapper registered for a class P and not for a subclass S of P that
\* has another name is not in the entry of S's name (the configuration of S
\* appends S's own members only), and no flush calls it on, or assigns for it
\* an attribute of, an instance of S.
C18_SubclassGetsNoParentBinding ==
    \A s, p \in Classes :
        SubclassOf(s, p) =>
            \A w \in 1..Len(wrappers) :
                OnlyFor(w, p, s) =>
                    /\ CountIn(w, generator_registry, class_name(s)) = 0
                    /\ Flushed =>
                           \A k \in 1..Len(last.log) :
                               (last.log[k].w = w) => obj_class[last.log[k].obj] # s

\* parent and subclass are both configured; a flush over an instance of each
\* called the parent's generator on the parent's instance and left the
\* subclass's instance as it was
C18_Witness ==
    /\ FlushedOk
    /\ \E s, p \in Classes :
           /\ SubclassOf(s, p)
           /\ configured[s] >= 1 /\ configured[p] >= 1
           /\ \E w \in 1..Len(wrappers) :
                  /\ p \in Owners(w)
                  /\ OnlyFor(w, p, s)
                  /\ \E o, q \in Affected :
                         /\ obj_class[o] = s /\ obj_class[q] = p
                         /\ CallsOn(w, q) # {}
                         /\ obj_attrs[q] # last.before[q]
                         /\ CallsOn(w, o) = {}
                         /\ obj_attrs[o] = last.before[o]

====
